---- MODULE Spec2Model ----
(***************************************************************************)
(* Battery-control policies: the beta (soft-clamp temperature) schedule    *)
(* and the lifecycle hooks of DiscreteStatefulRNNModel and                 *)
(* LazySigRegModel, the discrete controller's action table, and the        *)
(* deployment adapter Calibration.act.                                     *)
(*                                                                         *)
(* Numbers.  beta, beta_min, beta_increment and beta_max are Python floats *)
(* in the source; the model draws them from small integers, on which the   *)
(* float arithmetic of the schedule (one addition, one min) is exact.      *)
(* Tensors the networks compute (features, hidden state, logits) are       *)
(* opaque: the model keeps what the control flow decides about them.       *)
(***************************************************************************)
EXTENDS Integers, Sequences, FiniteSets, TLC

VARIABLES
    kind,           \* which controller class was constructed
    self,           \* the controller's fields
    phase,          \* where the pytorch_lightning Trainer is: idle, train, predict
    current_epoch,  \* Trainer.current_epoch, 0-based
    last,           \* the last hook or method called and what it did
    policy_matrix,  \* self.policy_matrix of the discrete controller
    out,            \* the 7 logits of the last action selection
    emitted,        \* the action the last selection emitted
    historical_states, \* Calibration.historical_states
    h,              \* Calibration.h, the recurrent state threaded across act calls
    act,            \* the outcome of the last Calibration.act call
    battery,        \* self.battery: capacity and rates of the BatteryEnv
    timestep,       \* timesteps the discrete forward loop has completed
    state_of_charge, \* battery_state, the loop's current state-of-charge
    battery_states, \* the pre-allocated battery_states tensor of the loop
    step,           \* the inputs of the loop's last timestep
    pc,             \* where LazySigRegModel.forward is
    e_steps_done,   \* E-step iterations LazySigRegModel.forward has completed
    battery_trace,  \* the trace LazySigRegModel.forward currently holds
    calls,          \* the simulator calls LazySigRegModel.forward has issued
    returned        \* what LazySigRegModel.forward returned

rolloutVars == <<battery, timestep, state_of_charge, battery_states, step>>

emVars == <<pc, e_steps_done, battery_trace, calls, returned>>

vars == <<kind, self, phase, current_epoch, last, policy_matrix, out, emitted,
          historical_states, h, act, rolloutVars, emVars>>

(***************************************************************************)
(* Bounds of the model.                                                    *)
(***************************************************************************)
MaxN == 2
MaxBetaMin == 1
MaxBetaMax == 3
MaxInc == 1
MaxEpochs == 4
SeqLen == 2
MaxEStepIters == 2
MaxH == 1
MaxSoc == 1

\* self.beta = None: soft clamping disabled, the simulator clamps hard.
None == -1000

Min(a, b) == IF a <= b THEN a ELSE b

(***************************************************************************)
(* Construction.  Neither __init__ validates its arguments: the four beta  *)
(* parameters are stored as given.  A freshly built nn.Module is in        *)
(* training mode.                                                          *)
(***************************************************************************)
Construct(n, bmin, binc, bmax, semi, iters) ==
    [beta |-> bmin,
     beta_min |-> bmin,
     beta_increment |-> binc,
     beta_max |-> bmax,
     increase_beta_per_n_epoch |-> n,
     semi_discrete |-> semi,
     e_step_iters |-> iters,
     training |-> TRUE]

\* What `last` records: the hook or method, the exception it raised, self.beta
\* before it ran, its arguments, the simulator calls it issued, its return value.
Idle == [op |-> "__init__", raised |-> "none", was |-> None,
         args |-> <<>>, sim |-> <<>>, ret |-> <<>>]

\* A bug reset_beta could have: a disabled beta is left disabled.
ResetBeta_KeepsNone(s) ==
    [s EXCEPT !.beta = IF s.beta = None THEN None ELSE s.beta_min]

ResetBeta(s) ==
    [s EXCEPT !.beta = s.beta_min]

\* The body of on_train_epoch_end once the modulus is known to be non-zero.
AnnealBeta(s, epoch) ==
    IF epoch % s.increase_beta_per_n_epoch = 0
    THEN [s EXCEPT !.beta = Min(s.beta + s.beta_increment, s.beta_max)]
    ELSE s

\* BatteryEnv / SeqBatteryEnv: where a rollout's state-of-charge starts.
InitialState(random) == IF random THEN "random" ELSE "fixed"

(***************************************************************************)
(* DiscreteStatefulRNNModel.forward: the initial state is random exactly   *)
(* in training mode; every timestep selects its action by hard_actions and *)
(* calls the battery with beta = self.beta.                                *)
(***************************************************************************)
DiscreteForward(s, hard_actions) ==
    [i \in 1..SeqLen |->
        [fn |-> "BatteryEnv",
         start |-> IF i = 1 THEN InitialState(s.training) ELSE "previous",
         beta |-> s.beta,
         action |-> IF hard_actions THEN "hard" ELSE "soft"]]

\* LazySigRegModel.e_step: one replay of the proposed actions.
EStep(s) ==
    [fn |-> "SeqBatteryEnv.forward",
     start |-> InitialState(TRUE),
     beta |-> None,
     action |-> "squashed"]

\* LazySigRegModel.m_step: the static replay against the estimated trace.
MStep(s) ==
    [fn |-> "SeqBatteryEnv.static_forward",
     start |-> "trace",
     beta |-> s.beta,
     action |-> "squashed"]

\* LazySigRegModel.forward: e_step_iters E-steps, then one M-step.
SigRegForward(s) ==
    [i \in 1..(s.e_step_iters + 1) |->
        IF i <= s.e_step_iters THEN EStep(s) ELSE MStep(s)]

Forward(k, s, hard_actions) ==
    IF k = "discrete" THEN DiscreteForward(s, hard_actions) ELSE SigRegForward(s)

\* validation_step of the discrete controller: hard unless semi_discrete.
ValidationHardActions(s) == IF s.semi_discrete THEN FALSE ELSE TRUE

(***************************************************************************)
(* step_forward.  The discrete controller returns four values, the caller's*)
(* battery state among them, and selects by semi_discrete; the signature   *)
(* controller returns three.  The recurrent state (or path) is opaque: the *)
(* model counts how many timesteps it has absorbed.                        *)
(***************************************************************************)
DiscreteStepForward(s, battery_state, h0) ==
    <<IF ~s.semi_discrete THEN "hard" ELSE "soft",
      IF ~s.semi_discrete THEN "hard" ELSE "soft",
      battery_state,
      h0 + 1>>

SigRegStepForward(s, battery_state, path) ==
    <<"squashed", "squashed", path + 1>>

Configs ==
    { Construct(n, bmin, binc, bmax, semi, iters) :
        n \in 0..MaxN, bmin \in 0..MaxBetaMin, binc \in -1..MaxInc,
        bmax \in 0..MaxBetaMax, semi \in BOOLEAN, iters \in 0..MaxEStepIters }

(***************************************************************************)
(* The action table, in units of 0.5: row k+1 is action index k, its first *)
(* column the grid multiplier and its second the solar multiplier, so      *)
(* <<2, 2>> is (1.0, 1.0) and <<-1, 0>> is (-0.5, 0.0).                    *)
(***************************************************************************)
PolicyMatrix ==
    << <<2, 2>>, <<1, 2>>, <<0, 2>>, <<0, 1>>, <<0, 0>>, <<-1, 0>>, <<-2, 0>> >>

PolicyIdle == <<0, 0, 0, 0, 0, 0, 0>>

NoPolicy ==
    /\ policy_matrix = PolicyMatrix
    /\ out = PolicyIdle
    /\ emitted = <<>>

NoAdapter ==
    /\ historical_states = <<>>
    /\ h = 0
    /\ act = <<>>

\* The discrete forward loop before a call: the controller holds a battery.
NoRollout ==
    /\ battery = [capacity |-> 4 * 13, charge |-> 2 * 5, discharge |-> 15]
    /\ timestep = 0
    /\ state_of_charge = 0
    /\ battery_states = <<>>
    /\ step = <<>>

\* LazySigRegModel.forward before a call.
NoEM ==
    /\ pc = "idle"
    /\ e_steps_done = 0
    /\ battery_trace = 0
    /\ calls = <<>>
    /\ returned = <<>>

Init ==
    /\ kind \in {"discrete", "sigreg"}
    /\ self \in Configs
    /\ kind = "discrete" => self.e_step_iters = 0
    /\ kind = "sigreg" => (self.e_step_iters >= 1 /\ ~self.semi_discrete)
    /\ phase = "idle"
    /\ current_epoch = 0
    /\ last = Idle
    /\ NoPolicy
    /\ NoAdapter
    /\ NoRollout
    /\ NoEM

Others == <<policy_matrix, out, emitted, historical_states, h, act,
            rolloutVars, emVars>>

(***************************************************************************)
(* Hooks, in the order the Trainer allows them.  The Trainer puts the      *)
(* module in train mode for training_step and in eval mode for             *)
(* validation_step and predict_step.  reset_beta is also public: a direct  *)
(* call changes beta and nothing the Trainer keeps (its stage, its epoch). *)
(***************************************************************************)
\* reset_beta() called directly, at any time.
ResetBetaCall ==
    /\ self' = ResetBeta(self)
    /\ last' = [Idle EXCEPT !.op = "reset_beta", !.was = self.beta]
    /\ UNCHANGED <<kind, phase, current_epoch, Others>>

OnTrainStart ==
    /\ self' = ResetBeta(self)
    /\ phase' = "train"
    /\ current_epoch' = 0
    /\ last' = [Idle EXCEPT !.op = "on_train_start", !.was = self.beta]
    /\ UNCHANGED <<kind, Others>>

TrainingStep ==
    /\ phase = "train"
    /\ self' = [self EXCEPT !.training = TRUE]
    /\ last' = [Idle EXCEPT !.op = "training_step", !.was = self.beta,
                            !.sim = Forward(kind, self', FALSE)]
    /\ UNCHANGED <<kind, phase, current_epoch, Others>>

ValidationStep ==
    /\ phase = "train"
    /\ self' = [self EXCEPT !.training = FALSE]
    /\ last' = [Idle EXCEPT !.op = "validation_step", !.was = self.beta,
                            !.sim = Forward(kind, self', ValidationHardActions(self))]
    /\ UNCHANGED <<kind, phase, current_epoch, Others>>

OnTrainEpochEnd ==
    /\ phase = "train"
    /\ current_epoch < MaxEpochs
    /\ IF self.increase_beta_per_n_epoch = 0
       THEN \* current_epoch % 0 raises ZeroDivisionError: the fit aborts
            /\ last' = [Idle EXCEPT !.op = "on_train_epoch_end",
                                    !.was = self.beta,
                                    !.raised = "ZeroDivisionError"]
            /\ phase' = "idle"
            /\ UNCHANGED <<self, current_epoch>>
       ELSE /\ self' = AnnealBeta(self, current_epoch)
            /\ last' = [Idle EXCEPT !.op = "on_train_epoch_end", !.was = self.beta]
            /\ current_epoch' = current_epoch + 1
            /\ UNCHANGED phase
    /\ UNCHANGED <<kind, Others>>

\* A bug on_predict_start could have: beta is left at its training value.
OnPredictStart_KeepsBeta ==
    /\ phase' = "predict"
    /\ last' = [Idle EXCEPT !.op = "on_predict_start", !.was = self.beta]
    /\ UNCHANGED <<kind, self, current_epoch, Others>>

OnPredictStart ==
    /\ self' = [self EXCEPT !.beta = None]
    /\ phase' = "predict"
    /\ last' = [Idle EXCEPT !.op = "on_predict_start", !.was = self.beta]
    /\ UNCHANGED <<kind, current_epoch, Others>>

PredictStep ==
    /\ phase = "predict"
    /\ self' = [self EXCEPT !.training = FALSE]
    /\ last' = [Idle EXCEPT !.op = "predict_step", !.was = self.beta,
                            !.sim = Forward(kind, self', FALSE)]
    /\ UNCHANGED <<kind, phase, current_epoch, Others>>

StepForward ==
    /\ \E battery_state \in 0..MaxSoc, h0 \in 0..MaxH :
          last' = [Idle EXCEPT
                     !.op = "step_forward", !.was = self.beta,
                     !.args = <<battery_state, h0>>,
                     !.ret = IF kind = "discrete"
                             THEN DiscreteStepForward(self, battery_state, h0)
                             ELSE SigRegStepForward(self, battery_state, h0)]
    /\ UNCHANGED <<kind, self, phase, current_epoch, Others>>

\* The lifecycle hooks and the forward paths, as a Trainer or the deployment
\* adapter calls them.
NextHooks ==
    \/ OnTrainStart
    \/ TrainingStep
    \/ ValidationStep
    \/ OnTrainEpochEnd
    \/ OnPredictStart
    \/ PredictStep
    \/ StepForward

SpecHooks == Init /\ [][NextHooks]_vars

\* Every public operation, direct calls of reset_beta included.
Next ==
    \/ NextHooks
    \/ ResetBetaCall

Spec == Init /\ [][Next]_vars

(***************************************************************************)
(* Action selection of the discrete controller (forward, lines 127-136).   *)
(* Logits are in units of ln 2, so that exp(out[i] - max) is a power of    *)
(* two.  F.softmax subtracts the row maximum before exponentiating; in     *)
(* float32 a term below 2^-149 underflows to exactly 0.  The logits are    *)
(* drawn from 0..MaxLogit and one far larger value, Peak, so every term is *)
(* either within MaxLogit of the maximum or underflows.  Weights are kept  *)
(* as integers in units of 2^-MaxLogit; the emitted action is the pair of  *)
(* numerators over the common denominator den, in units of 0.5.            *)
(***************************************************************************)
MaxLogit == 1
Peak == 200
Underflow == 149

Logits == (0..MaxLogit) \cup {Peak}

LogitVectors == [1..7 -> Logits]

RECURSIVE Pow2(_)
Pow2(k) == IF k = 0 THEN 1 ELSE 2 * Pow2(k - 1)

RECURSIVE MaxOf(_, _)
MaxOf(o, k) ==
    IF k = 1 THEN o[1]
    ELSE LET m == MaxOf(o, k - 1) IN IF o[k] > m THEN o[k] ELSE m

\* torch.argmax: the 0-based index of the first maximal value.
Argmax(o) ==
    LET m == MaxOf(o, 7)
    IN  (CHOOSE i \in 1..7 :
            /\ o[i] = m
            /\ \A j \in 1..(i - 1) : o[j] # o[i]) - 1

\* exp(d * ln 2) in float32 for d <= 0, in units of 2^-MaxLogit.
Exp2(d) == IF d < -Underflow THEN 0 ELSE Pow2(d + MaxLogit)

\* The numerators of F.softmax(out): weight i is SoftmaxWeights(o)[i] / SumTo(w, 7).
SoftmaxWeights(o) ==
    LET m == MaxOf(o, 7) IN [i \in 1..7 |-> Exp2(o[i] - m)]

RECURSIVE SumTo(_, _)
SumTo(w, k) == IF k = 0 THEN 0 ELSE w[k] + SumTo(w, k - 1)

\* Column c of (w @ matrix), before the division by the sum of the weights.
MatMulColumn(w, matrix, c) ==
    SumTo([i \in 1..7 |-> w[i] * matrix[i][c]], 7)

\* A bug the hard lookup could have: the two columns read in the wrong order.
HardAction_SwappedColumns(o, matrix) ==
    [mode |-> "hard",
     grid |-> matrix[Argmax(o) + 1][2],
     pv |-> matrix[Argmax(o) + 1][1],
     den |-> 1]

HardAction(o, matrix) ==
    [mode |-> "hard",
     grid |-> matrix[Argmax(o) + 1][1],
     pv |-> matrix[Argmax(o) + 1][2],
     den |-> 1]

SoftAction(o, matrix) ==
    LET w == SoftmaxWeights(o)
    IN  [mode |-> "soft",
         grid |-> MatMulColumn(w, matrix, 1),
         pv |-> MatMulColumn(w, matrix, 2),
         den |-> SumTo(w, 7)]

\* One timestep's selection on the logits `out` the network produced.
SelectHard ==
    /\ emitted = <<>>
    /\ emitted' = HardAction(out, policy_matrix)
    /\ UNCHANGED <<kind, self, phase, current_epoch, last, policy_matrix, out,
                   historical_states, h, act, rolloutVars, emVars>>

SelectSoft ==
    /\ emitted = <<>>
    /\ emitted' = SoftAction(out, policy_matrix)
    /\ UNCHANGED <<kind, self, phase, current_epoch, last, policy_matrix, out,
                   historical_states, h, act, rolloutVars, emVars>>

InitPolicy ==
    /\ kind = "discrete"
    /\ self = Construct(1, 0, 1, MaxBetaMax, FALSE, 0)
    /\ phase = "idle"
    /\ current_epoch = 0
    /\ last = Idle
    /\ policy_matrix = PolicyMatrix
    /\ out \in LogitVectors
    /\ emitted = <<>>
    /\ NoAdapter
    /\ NoRollout
    /\ NoEM

NextPolicy ==
    \/ SelectHard
    \/ SelectSoft

SpecPolicy == InitPolicy /\ [][NextPolicy]_vars

\* The table the comments of the source document, rows 0..6, in units of 0.5.
DocumentedTable ==
    << <<2, 2>>, <<1, 2>>, <<0, 2>>, <<0, 1>>, <<0, 0>>, <<-1, 0>>, <<-2, 0>> >>

\* Index k (0-based) is where the logits peak: the first maximal logit.
PeaksAt(o, k) ==
    /\ \A j \in 1..7 : o[j] <= o[k + 1]
    /\ \A j \in 1..k : o[j] < o[k + 1]

\* All softmax weight is on index k: every other term underflows to 0.
AllWeightOn(o, k) ==
    \A j \in 1..7 : j # k + 1 => o[j] - o[k + 1] < -Underflow

\* C6: the action table never changes and is the documented one; in hard mode
\* the emitted (grid, solar) pair is the table row at the argmax index; in soft
\* mode with all softmax weight on one index it is that same row; every emitted
\* action has grid in [-1, 1] and solar in [0, 1].
C6_TableLookup ==
    /\ policy_matrix = DocumentedTable
    /\ emitted # <<>> =>
          /\ emitted.den > 0
          /\ -2 * emitted.den <= emitted.grid /\ emitted.grid <= 2 * emitted.den
          /\ 0 <= emitted.pv /\ emitted.pv <= 2 * emitted.den
          /\ \A k \in 0..6 :
                /\ (emitted.mode = "hard" /\ PeaksAt(out, k)) =>
                      /\ emitted.den = 1
                      /\ emitted.grid = DocumentedTable[k + 1][1]
                      /\ emitted.pv = DocumentedTable[k + 1][2]
                /\ (emitted.mode = "soft" /\ AllWeightOn(out, k)) =>
                      /\ emitted.grid = DocumentedTable[k + 1][1] * emitted.den
                      /\ emitted.pv = DocumentedTable[k + 1][2] * emitted.den

C6_Witness ==
    /\ emitted # <<>>
    /\ emitted.mode = "soft"
    /\ AllWeightOn(out, 5)
    /\ out[1] # out[2]
    /\ emitted.grid = -1 * emitted.den
    /\ emitted.pv = 0

(***************************************************************************)
(* The deployment adapter, Calibration.act.  A field of the external-state *)
(* record is Absent (no such key), Null (the key maps to None), NaN (the   *)
(* key maps to float nan) or an observed value 1..MaxVal; Mean stands for  *)
(* the field's training-set mean (self.means).  The internal-state record  *)
(* is the set of its keys.  The preprocessor and the checkpointed model    *)
(* are opaque: step_forward advances the recurrent state self.h by one     *)
(* timestep.                                                               *)
(***************************************************************************)
MaxVal == 1
MaxActs == 2

NaN == -3
Absent == -2
Null == -1
Mean == 0

ActiveColumns == {"timestamp", "price", "pv_power"}

ExternalStates == [ActiveColumns -> {Absent, Null, NaN} \cup (1..MaxVal)]

InternalStates ==
    { {"battery_soc", "max_charge_rate"}, {"battery_soc"}, {"max_charge_rate"} }

means == [key \in ActiveColumns |-> Mean]

\* Series.fillna(other): the null entries take other's value for the same key.
Fillna(current, other) ==
    [key \in ActiveColumns |->
        IF current[key] \in {Null, NaN} THEN other[key] ELSE current[key]]

\* Lines 42-49: a present key is copied as it is, an absent one takes the mean.
CurrentRow(external_state) ==
    [key \in ActiveColumns |->
        IF external_state[key] # Absent
        THEN external_state[key]
        ELSE means[key]]

\* Lines 51-55: nulls are filled from the last record, or from the means.
FilledRow(external_state, history) ==
    IF Len(history) > 0
    THEN Fillna(CurrentRow(external_state), history[Len(history)])
    ELSE Fillna(CurrentRow(external_state), means)

\* Line 69 reads external_state["pv_power"] itself, not the filled record:
\* no key raises KeyError, None raises TypeError, nan multiplies to nan.
PvCharge(external_state) ==
    IF external_state["pv_power"] = Absent THEN "KeyError"
    ELSE IF external_state["pv_power"] = Null THEN "TypeError"
    ELSE "none"

\* Where act stops: line 63 reads internal_state["battery_soc"], line 68
\* internal_state["max_charge_rate"], line 69 external_state["pv_power"].
ActRaises(external_state, internal_state) ==
    IF "battery_soc" \notin internal_state THEN [line |-> 63, raised |-> "KeyError"]
    ELSE IF "max_charge_rate" \notin internal_state
         THEN [line |-> 68, raised |-> "KeyError"]
    ELSE IF PvCharge(external_state) # "none"
         THEN [line |-> 69, raised |-> PvCharge(external_state)]
    ELSE [line |-> 71, raised |-> "none"]

Act ==
    /\ Len(historical_states) < MaxActs
    /\ \E external_state \in ExternalStates, internal_state \in InternalStates :
          LET stop == ActRaises(external_state, internal_state)
          IN  /\ historical_states' =
                    Append(historical_states,
                           FilledRow(external_state, historical_states))
              /\ self' = [self EXCEPT !.training = FALSE]
              /\ h' = IF stop.line > 63 THEN h + 1 ELSE h
              /\ act' = [external_state |-> external_state,
                         internal_state |-> internal_state,
                         raised |-> stop.raised,
                         ret |-> IF stop.raised = "none"
                                 THEN <<"pv_charge", "grid_charge">>
                                 ELSE <<>>]
    /\ UNCHANGED <<kind, phase, current_epoch, last, policy_matrix,
                   out, emitted, rolloutVars, emVars>>

InitAct ==
    /\ kind = "discrete"
    /\ self = Construct(1, 0, 1, MaxBetaMax, FALSE, 0)
    /\ phase = "idle"
    /\ current_epoch = 0
    /\ last = Idle
    /\ NoPolicy
    /\ NoAdapter
    /\ NoRollout
    /\ NoEM

NextAct == Act

SpecAct == InitAct /\ [][NextAct]_vars

\* C9: for every sequence of act calls and every set of absent or null fields
\* of the external state (the internal state being complete), act does not
\* raise; each missing field of the appended record holds the previous record's
\* value when there is one and the mean otherwise; the appended record has no
\* missing field; act returns the pair of powers.
C9_ActNeverRaises ==
    (act # <<>> /\ act.internal_state = {"battery_soc", "max_charge_rate"}) =>
        LET n == Len(historical_states)
            row == historical_states[n]
            fill == IF n > 1 THEN historical_states[n - 1] ELSE means
        IN  /\ act.raised = "none"
            /\ Len(act.ret) = 2
            /\ \A key \in ActiveColumns :
                  /\ row[key] \notin {Absent, Null, NaN}
                  /\ act.external_state[key] \in {Absent, Null, NaN} =>
                        row[key] = fill[key]
                  /\ act.external_state[key] \notin {Absent, Null, NaN} =>
                        row[key] = act.external_state[key]

(***************************************************************************)
(* The timestep loop of DiscreteStatefulRNNModel.forward (lines 118-150)   *)
(* in a call made with beta = None.  predict_step passes hard_actions =    *)
(* False, validation_step passes True unless semi_discrete; the call's     *)
(* hard_actions is last.args[1].  Each timestep the network's logits `out` *)
(* select the action (the hard lookup or the softmax mixture), the battery *)
(* steps, and the state it returns is added to row i of battery_states.    *)
(* Multipliers and powers are in units of 0.5 (the action table's),        *)
(* energies in units of 0.25 kWh, so the product of a multiplier and a     *)
(* power is an energy.  A soft action is a fraction, so energies are kept  *)
(* as exact fractions num / den in lowest terms; float32 rounding is not   *)
(* modelled.  The battery's step is not part of the policies module: its   *)
(* hard clamp is the one the design describes, the proposed energy capped  *)
(* to the charge and discharge rates and the state-of-charge bounded to    *)
(* [0, capacity]; nothing about the battery's own behaviour is concluded   *)
(* from it.  The cost it also returns is accumulated beside the states and *)
(* read by nothing here.                                                   *)
(***************************************************************************)
MaxPv == 2

\* BatteryEnv(13, 5, 7.5) of the deployment adapter, and the 10 kWh, 5 kW example.
Batteries ==
    { [capacity |-> 4 * 13, charge |-> 2 * 5, discharge |-> 15],
      [capacity |-> 4 * 10, charge |-> 2 * 5, discharge |-> 2 * 5] }

RECURSIVE Gcd(_, _)
Gcd(a, b) == IF b = 0 THEN a ELSE Gcd(b, a % b)

Abs(a) == IF a < 0 THEN -a ELSE a

\* The fraction n / d, d > 0, in lowest terms.
Frac(n, d) ==
    LET g == Gcd(Abs(n), d) IN [num |-> n \div g, den |-> d \div g]

FracAdd(x, y) == Frac(x.num * y.den + y.num * x.den, x.den * y.den)

FracLeq(x, y) == x.num * y.den <= y.num * x.den

Clamp(x, lo, hi) ==
    IF ~FracLeq(Frac(lo, 1), x) THEN Frac(lo, 1)
    ELSE IF ~FracLeq(x, Frac(hi, 1)) THEN Frac(hi, 1)
    ELSE x

\* BatteryEnv.__call__ with beta = None: the next state-of-charge.  The action
\* is the record the selection emits, grid / den and pv / den.
BatteryHardStep(b, state, action, pv_t) ==
    LET proposed == Frac(action.grid * b.charge + action.pv * pv_t, action.den)
        capped == Clamp(proposed, -(2 * b.discharge), 2 * b.charge)
    IN  Clamp(FracAdd(state, capped), 0, b.capacity)

\* battery_states[:, i, :] += battery_state, on the pre-allocated zeros.
Accumulate(states, i, state) ==
    [states EXCEPT ![i] = FracAdd(@, state)]

\* The logits self.fc produces at a timestep: all weight on one index, two
\* indices tied, or index 1 raised by 0..MaxLogit over a flat rest.
OnePeak(k, a) == [j \in 1..7 |-> IF j = k + 1 THEN a ELSE 0]

RolloutLogits ==
    { OnePeak(k, Peak) : k \in 0..6 }
        \cup { OnePeak(1, a) : a \in 0..MaxLogit }
        \cup { [j \in 1..7 |-> IF j <= 2 THEN Peak ELSE 0] }

RolloutStep ==
    /\ timestep < SeqLen
    /\ \E o \in RolloutLogits :
          LET hard_actions == last.args[1]
              action == IF hard_actions
                        THEN HardAction(o, policy_matrix)
                        ELSE SoftAction(o, policy_matrix)
          IN  /\ out' = o
              /\ emitted' = action
              /\ \E pv_t \in 0..MaxPv :
                    /\ state_of_charge' =
                          BatteryHardStep(battery, state_of_charge, action, pv_t)
                    /\ step' = [state |-> state_of_charge, pv_t |-> pv_t]
    /\ battery_states' =
          Accumulate(battery_states, timestep + 1, state_of_charge')
    /\ timestep' = timestep + 1
    /\ UNCHANGED <<kind, self, phase, current_epoch, last, policy_matrix,
                   historical_states, h, act, battery, emVars>>

\* After on_predict_start, in eval mode, at the head of the loop: any whole kWh
\* of state-of-charge in 0..capacity, the rows pre-allocated as zeros.
InitRollout ==
    /\ kind = "discrete"
    /\ self = [Construct(1, 0, 1, MaxBetaMax, FALSE, 0) EXCEPT
                  !.beta = None, !.training = FALSE]
    /\ phase = "predict"
    /\ current_epoch = 0
    /\ \E hard_actions \in BOOLEAN :
          last = [Idle EXCEPT !.op = "forward", !.args = <<hard_actions>>]
    /\ NoPolicy
    /\ NoAdapter
    /\ NoEM
    /\ battery \in Batteries
    /\ timestep = 0
    /\ state_of_charge \in { Frac(4 * kWh, 1) : kWh \in 0..(battery.capacity \div 4) }
    /\ battery_states = [j \in 1..SeqLen |-> Frac(0, 1)]
    /\ step = <<>>

NextRollout == RolloutStep

SpecRollout == InitRollout /\ [][NextRollout]_vars

\* What the loop itself decides: row i holds exactly the state the battery
\* returned at timestep i, and the rows not yet reached are still zero.  Whether
\* that state lies in [0, capacity] is decided inside the battery's step.
RowsRelayBattery ==
    /\ \A j \in (timestep + 1)..Len(battery_states) :
          battery_states[j] = Frac(0, 1)
    /\ timestep >= 1 => battery_states[timestep] = state_of_charge

(***************************************************************************)
(* LazySigRegModel.forward, statement by statement (lines 171-218).  The   *)
(* network self.fc is opaque: each prediction's raw (grid, solar) output   *)
(* is drawn from 0..MaxRaw.  A squashed value is kept as the raw output    *)
(* with the number of tanh and of sigmoid applications it went through:    *)
(* tanh(0) = 0, and otherwise every further application changes the value  *)
(* (|tanh x| < |x| for x # 0, and the only fixed point of the sigmoid,     *)
(* about 0.659, is no sigmoid of an integer).  A trace is named by the     *)
(* E-step iteration that produced it, 0 being the neutral trace.           *)
(***************************************************************************)
MaxRaw == 1

RawOutputs == 0..MaxRaw

Raw(r) == [raw |-> r, tanh |-> 0, sigmoid |-> 0]

Tanh(v) ==
    IF v.raw = 0 /\ v.sigmoid = 0 THEN v ELSE [v EXCEPT !.tanh = @ + 1]

Sigmoid(v) == [v EXCEPT !.sigmoid = @ + 1]

\* e_step(grid_action, pv_action, ...): the actions go to the simulator as given.
EStepCall(s, grid_action, pv_action) ==
    [call |-> EStep(s), grid |-> grid_action, pv |-> pv_action]

\* m_step(grid_action, pv_action, estimated_battery_state, ...): lines 121-122
\* squash the actions it is given before the static replay.
MStepCall(s, grid_action, pv_action, estimated_battery_state) ==
    [call |-> MStep(s),
     grid |-> Tanh(grid_action),
     pv |-> Sigmoid(pv_action),
     estimated |-> estimated_battery_state]

\* A bug the loop bound could have: one iteration too many.
LoopContinues_OffByOne(s, done) == done <= s.e_step_iters

\* for _ in range(self.e_step_iters)
LoopContinues(s, done) == done < s.e_step_iters

EMRest == <<kind, self, phase, current_epoch, last, policy_matrix, out,
            emitted, historical_states, h, act, rolloutVars>>

\* Lines 141-174: the features, then battery_trace = get_neutral_trace(...).
ForwardBegin ==
    /\ pc = "idle"
    /\ pc' = "e_loop"
    /\ battery_trace' = 0
    /\ e_steps_done' = 0
    /\ calls' = <<>>
    /\ returned' = <<>>
    /\ UNCHANGED EMRest

\* Lines 175-195: one iteration of the E-step loop.
EStepIteration ==
    /\ pc = "e_loop"
    /\ LoopContinues(self, e_steps_done)
    /\ \E g \in RawOutputs, p \in RawOutputs :
          LET grid_actions == Tanh(Raw(g))
              pv_actions == Sigmoid(Raw(p))
          IN  calls' = Append(calls,
                  [sim |-> EStepCall(self, grid_actions, pv_actions),
                   predicted_from |-> battery_trace])
    /\ battery_trace' = e_steps_done + 1
    /\ e_steps_done' = e_steps_done + 1
    /\ UNCHANGED <<pc, returned, EMRest>>

\* Lines 196-218: the last prediction, the M-step and the return.
FinalReplay ==
    /\ pc = "e_loop"
    /\ ~LoopContinues(self, e_steps_done)
    /\ \E g \in RawOutputs, p \in RawOutputs :
          LET grid_actions == Tanh(Raw(g))
              pv_actions == Sigmoid(Raw(p))
          IN  /\ calls' = Append(calls,
                    [sim |-> MStepCall(self, grid_actions, pv_actions,
                                       battery_trace),
                     predicted_from |-> battery_trace])
              /\ returned' = <<grid_actions, pv_actions, battery_trace,
                               Len(calls) + 1>>
    /\ pc' = "done"
    /\ UNCHANGED <<e_steps_done, battery_trace, EMRest>>

InitEM ==
    /\ kind = "sigreg"
    /\ \E iters \in 0..MaxEStepIters, bmin \in 0..MaxBetaMin, eval \in BOOLEAN :
          self = [Construct(1, bmin, 1, MaxBetaMax, FALSE, iters) EXCEPT
                     !.beta = IF eval THEN None ELSE bmin,
                     !.training = ~eval]
    /\ phase = "idle"
    /\ current_epoch = 0
    /\ last = Idle
    /\ NoPolicy
    /\ NoAdapter
    /\ NoRollout
    /\ NoEM

NextEM ==
    \/ ForwardBegin
    \/ EStepIteration
    \/ FinalReplay

SpecEM == InitEM /\ [][NextEM]_vars

StaticReplays ==
    { j \in 1..Len(calls) : calls[j].sim.call.fn = "SeqBatteryEnv.static_forward" }

\* C12: every forward call ends after exactly e_step_iters E-step rollouts, each
\* with beta = None and with actions predicted from the neutral trace (first
\* iteration) or the previous iteration's trace, then exactly one static replay
\* with beta = self.beta against the trace the loop ended with; no static replay
\* comes before the last E-step, and the call cannot stop before it returns.
C12_FixedIterationEM ==
    /\ pc = "done" \/ ENABLED NextEM
    /\ e_steps_done <= self.e_step_iters
    /\ \A j \in 1..Len(calls) :
          j <= self.e_step_iters =>
              /\ calls[j].sim.call.fn = "SeqBatteryEnv.forward"
              /\ calls[j].sim.call.beta = None
              /\ calls[j].predicted_from = j - 1
    /\ StaticReplays = IF pc = "done" THEN {self.e_step_iters + 1} ELSE {}
    /\ pc = "done" =>
          /\ Len(calls) = self.e_step_iters + 1
          /\ e_steps_done = self.e_step_iters
          /\ calls[Len(calls)].sim.call.beta = self.beta
          /\ calls[Len(calls)].sim.estimated = self.e_step_iters
          /\ calls[Len(calls)].predicted_from = self.e_step_iters
          /\ returned[3] = self.e_step_iters

C12_Witness ==
    /\ pc = "done"
    /\ self.e_step_iters = MaxEStepIters
    /\ self.beta # None
    /\ Len(calls) = MaxEStepIters + 1
    /\ calls[1].sim.grid # calls[2].sim.grid

OnceSquashed(grid_action, pv_action) ==
    /\ grid_action.tanh = (IF grid_action.raw = 0 THEN 0 ELSE 1)
    /\ grid_action.sigmoid = 0
    /\ pv_action.sigmoid = 1
    /\ pv_action.tanh = 0

\* C13: the actions the final static replay hands the simulator are the
\* grid_actions and pv_actions the call returns, each the raw output squashed
\* exactly once, and the E-step rollouts apply that same single squashing.
C13_ReplayedActionsAreReturned ==
    /\ \A j \in 1..Len(calls) : OnceSquashed(calls[j].sim.grid, calls[j].sim.pv)
    /\ pc = "done" =>
          /\ calls[Len(calls)].sim.grid = returned[1]
          /\ calls[Len(calls)].sim.pv = returned[2]
          /\ returned[4] = Len(calls)

(***************************************************************************)
(* The claims about the beta schedule and the lifecycle hooks.             *)
(***************************************************************************)
ValidConfig(s) ==
    /\ s.increase_beta_per_n_epoch >= 1
    /\ s.beta_increment > 0
    /\ s.beta_min <= s.beta_max

ForwardOps == {"training_step", "validation_step", "predict_step"}

\* C1: for N >= 1, D > 0 and floor <= ceiling, after on_train_start and K calls
\* of on_train_epoch_end (current_epoch = K), beta = min(floor + D*floor(K/N),
\* ceiling).  The code adds the increment at the end of epochs 0, N, 2N, ...,
\* so after K epochs it has added it ceil(K/N) times.  Stated of sequences of
\* hooks (SpecHooks): a direct reset_beta in mid-run is no part of the claim.
C1_BetaSchedule ==
    (phase = "train" /\ ValidConfig(self)) =>
        self.beta = Min(self.beta_min + self.beta_increment
                            * (current_epoch \div self.increase_beta_per_n_epoch),
                        self.beta_max)

\* C2: within one training run and for every constructor configuration, beta
\* stays within [beta_min, beta_max], never decreases from one epoch end to the
\* next, and stays at beta_max once there.  Stated of sequences of hooks
\* (SpecHooks), as C1 is.
C2_MonotoneWithinBounds ==
    [][ /\ phase' = "train" =>
              (self'.beta_min <= self'.beta /\ self'.beta <= self'.beta_max)
        /\ (phase = "train" /\ phase' = "train" /\ last'.op = "on_train_epoch_end") =>
              /\ self'.beta >= self.beta
              /\ self.beta = self.beta_max => self'.beta = self.beta_max
      ]_vars

\* C3: whatever came before (construction, earlier runs, on_predict_start having
\* disabled beta), on_train_start leaves beta = beta_min and changes no other
\* field of the controller; a training_step of the run's first epoch hands the
\* simulator beta_min wherever it hands it self.beta.
C3_TrainStartResets ==
    [][ /\ last'.op = "on_train_start" =>
              /\ self' = [self EXCEPT !.beta = self.beta_min]
              /\ self'.beta = self'.beta_min
              /\ kind' = kind
        /\ (last'.op = "training_step" /\ current_epoch' = 0) =>
              \A i \in 1..Len(last'.sim) :
                  last'.sim[i].fn # "SeqBatteryEnv.forward" =>
                      last'.sim[i].beta = self'.beta_min
      ]_vars

C3_Witness ==
    /\ last.op = "on_train_start"
    /\ last.was = None
    /\ current_epoch = 0
    /\ self.beta = self.beta_min
    /\ self.beta # None

\* C4 as claimed: every simulator step of every inference-time use (predict_step,
\* validation_step in eval mode, step_forward) receives beta = None.  Stated for
\* valid configurations, so that a violation owes nothing to an invalid one.
C4_InferenceAlwaysHardClamp ==
    (ValidConfig(self)
        /\ last.op \in {"predict_step", "validation_step", "step_forward"}) =>
        \A i \in 1..Len(last.sim) : last.sim[i].beta = None

\* C4 as amended: on_predict_start sets beta to None and beta stays None until
\* the next on_train_start or direct reset_beta call, so every simulator step of
\* a predict_step in between receives beta = None; a predict_step hands the
\* simulator the current self.beta (None in the E-step rollouts); step_forward
\* issues no simulator step; validation_step hands the simulator the current
\* self.beta, never None, in the discrete controller's steps and in the
\* signature controller's M-step, whose E-step rollouts alone receive None.
C4_PredictHardClamp ==
    [][ /\ last'.op = "on_predict_start" => self'.beta = None
        /\ (self.beta = None /\ last'.op \notin {"on_train_start", "reset_beta"}) =>
              self'.beta = None
        /\ last'.op = "predict_step" =>
              /\ self'.beta = self.beta
              /\ \A i \in 1..Len(last'.sim) :
                    /\ last'.sim[i].fn # "SeqBatteryEnv.forward" =>
                          last'.sim[i].beta = self.beta
                    /\ last'.sim[i].fn = "SeqBatteryEnv.forward" =>
                          last'.sim[i].beta = None
        /\ last'.op = "step_forward" => last'.sim = <<>>
        /\ last'.op = "validation_step" =>
              /\ self'.beta # None
              /\ \A i \in 1..Len(last'.sim) :
                    /\ last'.sim[i].fn # "SeqBatteryEnv.forward" =>
                          last'.sim[i].beta = self'.beta
                    /\ last'.sim[i].fn = "SeqBatteryEnv.forward" =>
                          last'.sim[i].beta = None
      ]_vars

C4_Witness ==
    /\ last.op = "predict_step"
    /\ current_epoch > 0
    /\ Len(last.sim) >= 2
    /\ \A i \in 1..Len(last.sim) : last.sim[i].beta = None

\* C5: in the discrete controller training_step selects soft actions at every
\* timestep; validation_step, predict_step and step_forward select hard actions
\* unless semi_discrete is set, and then soft ones (valid configurations).
C5_ModeByPhase ==
    (kind = "discrete" /\ ValidConfig(self)) =>
        LET eval_mode == IF self.semi_discrete THEN "soft" ELSE "hard" IN
        /\ last.op = "training_step" =>
              \A i \in 1..Len(last.sim) : last.sim[i].action = "soft"
        /\ last.op \in {"validation_step", "predict_step"} =>
              \A i \in 1..Len(last.sim) : last.sim[i].action = eval_mode
        /\ last.op = "step_forward" =>
              (last.ret[1] = eval_mode /\ last.ret[2] = eval_mode)

\* C7: for both controllers step_forward returns (grid_action, solar_action,
\* battery_state, updated state or path), battery_state being the caller's, and
\* neither runs the simulator nor changes beta (valid configurations).
C7_StepForwardFourTuple ==
    (ValidConfig(self) /\ last.op = "step_forward") =>
        /\ Len(last.ret) = 4
        /\ last.ret[3] = last.args[1]
        /\ last.ret[4] = last.args[2] + 1
        /\ last.sim = <<>>
        /\ self.beta = last.was

\* C8: every forward call re-initialises the state-of-charge, and a rollout
\* starts from a random state only when the controller is in training mode
\* (valid configurations).
C8_RandomStartOnlyInTraining ==
    (ValidConfig(self) /\ last.op \in ForwardOps) =>
        /\ Len(last.sim) >= 1
        /\ last.sim[1].start \in {"random", "fixed"}
        /\ \A i \in 1..Len(last.sim) :
              last.sim[i].start = "random" => self.training

\* C10: an invalid configuration is rejected by __init__, so on_train_epoch_end
\* never runs on one and never fails.
C10_NoLateConfigFailure ==
    last.op = "on_train_epoch_end" =>
        (last.raised = "none" /\ ValidConfig(self))

====
